---- MODULE Spec2Model ----
(***************************************************************************)
(* CachedDiskDict (w3af/core/data/db/cached_disk_dict.py): a dict that     *)
(* keeps the max_in_memory most frequently accessed keys in a python dict  *)
(* and the rest in a DiskDict.  One action per public method, each         *)
(* executed as a whole (single caller); SpecThreads runs the methods one   *)
(* statement at a time in several threads.                                 *)
(***************************************************************************)
EXTENDS Integers, Sequences, FiniteSets, TLC

(* ------------------------------ bounds -------------------------------- *)
NumKeys == 3
MaxInMemory == 2
MaxCount == 2
NumValues == 2
NumThreads == 2
MaxCalls == 2

Keys == 1..NumKeys
Values == 1..NumValues
Threads == 1..NumThreads

(* A slot of a dict that holds no value for the key; also python's None.   *)
Missing == 0
(* python's True and False (bool is an int: True == 1, False == 0).        *)
True == 1
False == 0
(* The literal -456 of CachedDiskDict.get.                                 *)
Sentinel == -456

VARIABLES
    in_memory,      \* self._in_memory : key -> value (Missing when absent)
    disk_dict,      \* self._disk_dict : key -> value (Missing when absent)
    access_count,   \* self._access_count : [n : key -> count (0 = no entry),
                    \*                       keys : iteration order of the entries]
    written,        \* history: value of the latest __setitem__ of each key
                    \* since its last __delitem__ / cleanup
    last,           \* observation: the last call, its arguments and outcome
    threads         \* SpecThreads: per thread, the statement it is at (pc),
                    \* the call it is in and the locals of that call

vars == <<in_memory, disk_dict, access_count, written, last, threads>>

(* ------------------------------ helpers ------------------------------- *)
Range(s) == {s[i] : i \in 1..Len(s)}

Without(s, k) == SelectSeq(s, LAMBDA x : x # k)

InsertAt(s, pos, k) == SubSeq(s, 1, pos - 1) \o <<k>> \o SubSeq(s, pos, Len(s))

Has(d, k) == d[k] # Missing

KeysOf(d) == {k \in Keys : Has(d, k)}

EmptyDict == [k \in Keys |-> Missing]

EmptyCounter == [n |-> [k \in Keys |-> 0], keys |-> <<>>]

(* ------------------------------ DiskDict ------------------------------ *)
(* The DiskDict collaborator, taken as a mapping that stores values as     *)
(* given: item assignment, pop / del of a key that is there, cleanup.      *)
DiskDict_setitem(d, key, value) == [d EXCEPT ![key] = value]

DiskDict_pop(d, key) == [d EXCEPT ![key] = Missing]

DiskDict_cleanup(d) == EmptyDict

(* CachedDiskDict(max_in_memory) *)
init(max_in_memory) ==
    [max_in_memory |-> max_in_memory,
     in_memory |-> EmptyDict,
     disk_dict |-> EmptyDict,
     access_count |-> EmptyCounter]

(* --------------------------- Counter methods -------------------------- *)
(* Counter.most_common(n): the n entries with the highest counts; entries  *)
(* with equal counts come out in the iteration order of the Counter.       *)
RECURSIVE most_common(_, _, _)
most_common(n, keys, limit) ==
    IF limit = 0 \/ keys = <<>> THEN <<>>
    ELSE LET best == CHOOSE i \in 1..Len(keys) :
                        /\ \A j \in 1..Len(keys) : n[keys[j]] <= n[keys[i]]
                        /\ \A j \in 1..(i - 1) : n[keys[j]] < n[keys[i]]
         IN <<keys[best]>> \o most_common(n, Without(keys, keys[best]), limit - 1)

get_keys_for_memory(self) ==
    most_common(self.access_count.n, self.access_count.keys, self.max_in_memory)

(* Mutant: the Counter is replaced by one that holds only the key.         *)
increase_access_count_restart(counter, key, pos) ==
    [n |-> [k \in Keys |-> IF k = key THEN counter.n[k] + 1 ELSE 0],
     keys |-> <<key>>]

(* Counter.update([key]): +1; a new entry takes the place the dict's hash   *)
(* table gives it (pos), which the code does not control.                  *)
increase_access_count(counter, key, pos) ==
    [n |-> [counter.n EXCEPT ![key] = @ + 1],
     keys |-> IF counter.n[key] = 0 THEN InsertAt(counter.keys, pos, key)
              ELSE counter.keys]

counter_del(counter, key) ==
    [n |-> [counter.n EXCEPT ![key] = 0], keys |-> Without(counter.keys, key)]

(* ------------------------------ rebalance ----------------------------- *)
(* Mutant: the popped value is not stored on disk.                         *)
RECURSIVE move_keys_to_disk_loop_drop(_, _, _)
move_keys_to_disk_loop_drop(self, todo, keys_for_memory) ==
    IF todo = {} THEN self
    ELSE LET key == CHOOSE k \in todo : TRUE
             rest == todo \ {key}
         IN IF key \in Range(keys_for_memory)
            THEN move_keys_to_disk_loop_drop(self, rest, keys_for_memory)
            ELSE move_keys_to_disk_loop_drop(
                    [self EXCEPT !.in_memory[key] = Missing],
                    rest, keys_for_memory)

(* for key in self._in_memory.keys(): ...                                  *)
RECURSIVE move_keys_to_disk_loop(_, _, _)
move_keys_to_disk_loop(self, todo, keys_for_memory) ==
    IF todo = {} THEN self
    ELSE LET key == CHOOSE k \in todo : TRUE
             rest == todo \ {key}
         IN IF key \in Range(keys_for_memory)
            THEN move_keys_to_disk_loop(self, rest, keys_for_memory)
            ELSE IF ~Has(self.in_memory, key)
            THEN move_keys_to_disk_loop(self, rest, keys_for_memory)
            ELSE move_keys_to_disk_loop(
                    [self EXCEPT !.in_memory[key] = Missing,
                                 !.disk_dict = DiskDict_setitem(
                                                  @, key, self.in_memory[key])],
                    rest, keys_for_memory)

(* Mutant: nothing is moved to disk.                                       *)
move_keys_to_disk_if_needed_none(self, keys_for_memory) == self

move_keys_to_disk_if_needed(self, keys_for_memory) ==
    move_keys_to_disk_loop(self, KeysOf(self.in_memory), keys_for_memory)

(* Mutant: a key found in neither tier ends the loop (break for continue). *)
RECURSIVE move_keys_to_memory_if_needed_stop(_, _)
move_keys_to_memory_if_needed_stop(self, keys_for_memory) ==
    IF keys_for_memory = <<>> THEN self
    ELSE LET key == Head(keys_for_memory)
             rest == Tail(keys_for_memory)
         IN IF Has(self.in_memory, key)
            THEN move_keys_to_memory_if_needed_stop(self, rest)
            ELSE IF ~Has(self.disk_dict, key)
            THEN self
            ELSE move_keys_to_memory_if_needed_stop(
                    [self EXCEPT !.in_memory[key] = self.disk_dict[key],
                                 !.disk_dict = DiskDict_pop(@, key)],
                    rest)

RECURSIVE move_keys_to_memory_if_needed(_, _)
move_keys_to_memory_if_needed(self, keys_for_memory) ==
    IF keys_for_memory = <<>> THEN self
    ELSE LET key == Head(keys_for_memory)
             rest == Tail(keys_for_memory)
         IN IF Has(self.in_memory, key)
            THEN move_keys_to_memory_if_needed(self, rest)
            ELSE IF ~Has(self.disk_dict, key)
            THEN move_keys_to_memory_if_needed(self, rest)
            ELSE move_keys_to_memory_if_needed(
                    [self EXCEPT !.in_memory[key] = self.disk_dict[key],
                                 !.disk_dict = DiskDict_pop(@, key)],
                    rest)

move_keys_to_from_memory(self) ==
    LET keys_for_memory == get_keys_for_memory(self)
    IN move_keys_to_memory_if_needed(
            move_keys_to_disk_if_needed(self, keys_for_memory), keys_for_memory)

(* --------------------------- public methods --------------------------- *)
(* Each method maps the object before the call to the object after it and  *)
(* the call's outcome: the value returned, or raised = TRUE for KeyError;   *)
(* rebalanced tells whether the call ran _move_keys_to_from_memory.        *)
Returns(self, ret) ==
    [self |-> self, raised |-> FALSE, ret |-> ret, rebalanced |-> FALSE]

Raises(self) ==
    [self |-> self, raised |-> TRUE, ret |-> Missing, rebalanced |-> FALSE]

Rebalanced(self, ret) ==
    [self |-> move_keys_to_from_memory(self), raised |-> FALSE, ret |-> ret,
     rebalanced |-> TRUE]

Counted(self, key, pos) ==
    [self EXCEPT !.access_count = increase_access_count(@, key, pos)]

(* Mutant: the access is counted before the key is looked up.              *)
getitem_counts_first(self, key, pos) ==
    IF Has(self.in_memory, key)
    THEN Rebalanced(Counted(self, key, pos), self.in_memory[key])
    ELSE IF Has(self.disk_dict, key)
    THEN Rebalanced(Counted(self, key, pos), self.disk_dict[key])
    ELSE Raises(Counted(self, key, pos))

(* self[key] *)
getitem(self, key, pos) ==
    IF Has(self.in_memory, key)
    THEN Rebalanced(Counted(self, key, pos), self.in_memory[key])
    ELSE IF Has(self.disk_dict, key)
    THEN Rebalanced(Counted(self, key, pos), self.disk_dict[key])
    ELSE Raises(self)

(* self.get(key, default); default.lit: the argument is the very object of *)
(* the literal -456 in the body (`is` compares identities).                *)
get(self, key, default, pos) ==
    LET r == getitem(self, key, pos)
    IN IF ~r.raised THEN r
       ELSE IF ~default.lit THEN Returns(r.self, default.val)
       ELSE Raises(r.self)

(* Mutant: the room test is off by one (<= for <).                         *)
setitem_full_insert(self, key, value, pos) ==
    IF Has(self.in_memory, key)
    THEN Returns(Counted([self EXCEPT !.in_memory[key] = value], key, pos), Missing)
    ELSE IF Cardinality(KeysOf(self.in_memory)) <= self.max_in_memory
    THEN Returns(Counted([self EXCEPT !.in_memory[key] = value], key, pos), Missing)
    ELSE Rebalanced(Counted([self EXCEPT !.disk_dict =
                                            DiskDict_setitem(@, key, value)],
                            key, pos),
                    Missing)

(* Mutant: the branch for a key that is already in memory is missing.      *)
setitem_no_resident_check(self, key, value, pos) ==
    IF Cardinality(KeysOf(self.in_memory)) < self.max_in_memory
    THEN Returns(Counted([self EXCEPT !.in_memory[key] = value], key, pos), Missing)
    ELSE Rebalanced(Counted([self EXCEPT !.disk_dict =
                                            DiskDict_setitem(@, key, value)],
                            key, pos),
                    Missing)

(* Mutant: a key stored into free room is not counted.                     *)
setitem_uncounted_insert(self, key, value, pos) ==
    IF Has(self.in_memory, key)
    THEN Returns(Counted([self EXCEPT !.in_memory[key] = value], key, pos), Missing)
    ELSE IF Cardinality(KeysOf(self.in_memory)) < self.max_in_memory
    THEN Returns([self EXCEPT !.in_memory[key] = value], Missing)
    ELSE Rebalanced(Counted([self EXCEPT !.disk_dict =
                                            DiskDict_setitem(@, key, value)],
                            key, pos),
                    Missing)

(* self[key] = value *)
setitem(self, key, value, pos) ==
    IF Has(self.in_memory, key)
    THEN Returns(Counted([self EXCEPT !.in_memory[key] = value], key, pos), Missing)
    ELSE IF Cardinality(KeysOf(self.in_memory)) < self.max_in_memory
    THEN Returns(Counted([self EXCEPT !.in_memory[key] = value], key, pos), Missing)
    ELSE Rebalanced(Counted([self EXCEPT !.disk_dict =
                                            DiskDict_setitem(@, key, value)],
                            key, pos),
                    Missing)

(* del self[key] *)
delitem(self, key) ==
    IF Has(self.in_memory, key)
    THEN Returns([self EXCEPT !.in_memory[key] = Missing], Missing)
    ELSE IF Has(self.disk_dict, key)
    THEN Returns([self EXCEPT !.disk_dict = DiskDict_pop(@, key),
                              !.access_count = counter_del(@, key)], Missing)
    ELSE Raises([self EXCEPT !.access_count = counter_del(@, key)])

(* Mutant: a hit also moves the keys.                                      *)
contains_rebalances(self, key, pos) ==
    IF Has(self.in_memory, key) \/ Has(self.disk_dict, key)
    THEN [Rebalanced(Counted(self, key, pos), True) EXCEPT !.rebalanced = FALSE]
    ELSE Returns(self, False)

(* key in self *)
contains(self, key, pos) ==
    IF Has(self.in_memory, key) THEN Returns(Counted(self, key, pos), True)
    ELSE IF Has(self.disk_dict, key) THEN Returns(Counted(self, key, pos), True)
    ELSE Returns(self, False)

(* Mutant: the Counter is not replaced.                                    *)
cleanup_keeps_counts(self) ==
    [self EXCEPT !.disk_dict = DiskDict_cleanup(@),
                 !.in_memory = EmptyDict]

(* self.cleanup() *)
cleanup(self) ==
    [self EXCEPT !.disk_dict = DiskDict_cleanup(@),
                 !.access_count = EmptyCounter,
                 !.in_memory = EmptyDict]

(* The orders in which a dict may hand out the keys of S.                  *)
Orderings(S) ==
    {s \in [1..Cardinality(S) -> S] : \A i, j \in DOMAIN s : i # j => s[i] # s[j]}

(* Mutant: the keys on disk come first.                                    *)
iter_disk_first(self) ==
    {d \o m : m \in Orderings(KeysOf(self.in_memory)),
              d \in Orderings(KeysOf(self.disk_dict))}

(* list(iter(self)): the keys in memory, then the keys on disk.            *)
iter(self) ==
    {m \o d : m \in Orderings(KeysOf(self.in_memory)),
              d \in Orderings(KeysOf(self.disk_dict))}

(* The (key, value) pairs of dict d for the keys of s, in that order.      *)
Items(d, s) == [i \in DOMAIN s |-> <<s[i], d[s[i]]>>]

(* list(self.iteritems()): the pairs in memory, then the pairs on disk.    *)
iteritems(self) ==
    {Items(self.in_memory, m) \o Items(self.disk_dict, d) :
        m \in Orderings(KeysOf(self.in_memory)),
        d \in Orderings(KeysOf(self.disk_dict))}

(* ------------------------------- state -------------------------------- *)
Self ==
    [max_in_memory |-> MaxInMemory,
     in_memory |-> in_memory,
     disk_dict |-> disk_dict,
     access_count |-> access_count]

Becomes(self) ==
    /\ in_memory' = self.in_memory
    /\ disk_dict' = self.disk_dict
    /\ access_count' = self.access_count

Call(op, key, arg, supplied, r, yielded) ==
    [op |-> op, key |-> key, arg |-> arg, supplied |-> supplied,
     raised |-> r.raised, ret |-> r.ret, rebalanced |-> r.rebalanced,
     yielded |-> yielded]

Stored(key) == Has(in_memory, key) \/ Has(disk_dict, key)

(* The place of a new Counter entry; pos = 1 stands for "no new entry".    *)
Positions(key) ==
    IF access_count.n[key] = 0 THEN 1..(Len(access_count.keys) + 1) ELSE {1}

(* Arguments passed as default.  Whether the default -456 of the signature *)
(* and the literal -456 of the body are one object is up to the            *)
(* interpreter: both outcomes are kept.                                    *)
OmittedDefaults ==
    {[supplied |-> FALSE, val |-> Sentinel, lit |-> b] : b \in BOOLEAN}

SuppliedDefaults ==
    {[supplied |-> TRUE, val |-> v, lit |-> FALSE] : v \in {1, Sentinel}}
        \cup {[supplied |-> TRUE, val |-> Sentinel, lit |-> TRUE]}

(* A thread between calls; left: the calls it may still make.             *)
Idle(left) ==
    [pc |-> "idle", op |-> "none", key |-> 0, value |-> Missing,
     keys_for_memory |-> <<>>, todo |-> {}, val |-> Missing, cur |-> 0,
     left |-> left]

(* ------------------------------- actions ------------------------------ *)
Init ==
    /\ in_memory = init(MaxInMemory).in_memory
    /\ disk_dict = init(MaxInMemory).disk_dict
    /\ access_count = init(MaxInMemory).access_count
    /\ written = EmptyDict
    /\ last = Call("init", 0, Missing, FALSE, Returns(0, Missing), <<>>)
    /\ threads = [t \in Threads |-> Idle(MaxCalls)]

SetItem(key, value) ==
    /\ access_count.n[key] < MaxCount
    /\ \E pos \in Positions(key) :
         LET r == setitem(Self, key, value, pos)
         IN /\ Becomes(r.self)
            /\ last' = Call("setitem", key, value, FALSE, r, <<>>)
    /\ written' = [written EXCEPT ![key] = value]
    /\ UNCHANGED threads

GetItem(key) ==
    /\ Stored(key) => access_count.n[key] < MaxCount
    /\ \E pos \in Positions(key) :
         LET r == getitem(Self, key, pos)
         IN /\ Becomes(r.self)
            /\ last' = Call("getitem", key, Missing, FALSE, r, <<>>)
    /\ UNCHANGED <<written, threads>>

Get(key, default) ==
    /\ Stored(key) => access_count.n[key] < MaxCount
    /\ \E pos \in Positions(key) :
         LET r == get(Self, key, default, pos)
         IN /\ Becomes(r.self)
            /\ last' = Call("get", key, default.val, default.supplied, r, <<>>)
    /\ UNCHANGED <<written, threads>>

DelItem(key) ==
    /\ LET r == delitem(Self, key)
       IN /\ Becomes(r.self)
          /\ last' = Call("delitem", key, Missing, FALSE, r, <<>>)
    /\ written' = [written EXCEPT ![key] = Missing]
    /\ UNCHANGED threads

Contains(key) ==
    /\ Stored(key) => access_count.n[key] < MaxCount
    /\ \E pos \in Positions(key) :
         LET r == contains(Self, key, pos)
         IN /\ Becomes(r.self)
            /\ last' = Call("contains", key, Missing, FALSE, r, <<>>)
    /\ UNCHANGED <<written, threads>>

Iter ==
    /\ \E yielded \in iter(Self) :
         last' = Call("iter", 0, Missing, FALSE, Returns(0, Missing), yielded)
    /\ UNCHANGED <<in_memory, disk_dict, access_count, written, threads>>

IterItems ==
    /\ \E yielded \in iteritems(Self) :
         last' = Call("iteritems", 0, Missing, FALSE, Returns(0, Missing), yielded)
    /\ UNCHANGED <<in_memory, disk_dict, access_count, written, threads>>

(* last.arg of a cleanup: how many keys were stored when it was called.    *)
Cleanup ==
    /\ Becomes(cleanup(Self))
    /\ written' = EmptyDict
    /\ last' = Call("cleanup", 0, Cardinality({key \in Keys : Stored(key)}),
                    FALSE, Returns(0, Missing), <<>>)
    /\ UNCHANGED threads

Next ==
    \/ \E key \in Keys, value \in Values : SetItem(key, value)
    \/ \E key \in Keys : GetItem(key)
    \/ \E key \in Keys, default \in OmittedDefaults : Get(key, default)
    \/ \E key \in Keys, default \in SuppliedDefaults : Get(key, default)
    \/ \E key \in Keys : DelItem(key)
    \/ \E key \in Keys : Contains(key)
    \/ Iter
    \/ IterItems
    \/ Cleanup

Spec == Init /\ [][Next]_vars

(* ------------------- the methods, statement by statement -------------- *)
(* Each action is one access of a thread to _in_memory, _disk_dict or      *)
(* _access_count; what a thread does between two accesses touches only its *)
(* locals and is folded into the access before it.                         *)
At(t, pc) == threads[t].pc = pc

Goto(t, pc) == threads' = [threads EXCEPT ![t].pc = pc]

(* Two __setitem__ of one key are never in flight together, so that the    *)
(* latest completed one is well defined.                                   *)
MayCall(t, op, key) ==
    /\ At(t, "idle")
    /\ threads[t].left > 0
    /\ op = "setitem" =>
         \A u \in Threads \ {t} :
             ~(threads[u].op = "setitem" /\ threads[u].key = key)

Enter(t, op, key, value, pc, val) ==
    threads' = [threads EXCEPT ![t] = [@ EXCEPT !.pc = pc, !.op = op,
                                                !.key = key, !.value = value,
                                                !.val = val]]

(* __setitem__: if key in self._in_memory                                  *)
T_setitem_in_memory(t, key, value) ==
    /\ MayCall(t, "setitem", key)
    /\ Enter(t, "setitem", key, value,
             IF Has(in_memory, key) THEN "store_memory" ELSE "len", Missing)
    /\ UNCHANGED <<in_memory, disk_dict, access_count, written, last>>

(* __setitem__: elif len(self._in_memory) < self._max_in_memory            *)
T_setitem_len(t) ==
    /\ At(t, "len")
    /\ Goto(t, IF Cardinality(KeysOf(in_memory)) < MaxInMemory
               THEN "store_memory" ELSE "store_disk")
    /\ UNCHANGED <<in_memory, disk_dict, access_count, written, last>>

(* __setitem__: self._in_memory[key] = value                               *)
T_setitem_store_memory(t) ==
    /\ At(t, "store_memory")
    /\ in_memory' = [in_memory EXCEPT ![threads[t].key] = threads[t].value]
    /\ Goto(t, "count")
    /\ UNCHANGED <<disk_dict, access_count, written, last>>

(* __setitem__: self._disk_dict[key] = value                               *)
T_setitem_store_disk(t) ==
    /\ At(t, "store_disk")
    /\ disk_dict' = DiskDict_setitem(disk_dict, threads[t].key, threads[t].value)
    /\ Goto(t, "count_rebalance")
    /\ UNCHANGED <<in_memory, access_count, written, last>>

(* __getitem__: value = self._in_memory[key]                               *)
T_getitem_in_memory(t, key) ==
    /\ MayCall(t, "getitem", key)
    /\ Enter(t, "getitem", key, Missing,
             IF Has(in_memory, key) THEN "count_rebalance" ELSE "getitem_disk",
             in_memory[key])
    /\ UNCHANGED <<in_memory, disk_dict, access_count, written, last>>

(* __getitem__: value = self._disk_dict[key]; a KeyError ends the call     *)
T_getitem_disk(t) ==
    /\ At(t, "getitem_disk")
    /\ threads' = [threads EXCEPT
                      ![t].pc = IF Has(disk_dict, threads[t].key)
                                THEN "count_rebalance" ELSE "return",
                      ![t].val = disk_dict[threads[t].key]]
    /\ UNCHANGED <<in_memory, disk_dict, access_count, written, last>>

(* __contains__: if key in self._in_memory                                 *)
T_contains_in_memory(t, key) ==
    /\ MayCall(t, "contains", key)
    /\ Enter(t, "contains", key, Missing,
             IF Has(in_memory, key) THEN "count" ELSE "contains_disk", Missing)
    /\ UNCHANGED <<in_memory, disk_dict, access_count, written, last>>

(* __contains__: if key in self._disk_dict                                 *)
T_contains_disk(t) ==
    /\ At(t, "contains_disk")
    /\ Goto(t, IF Has(disk_dict, threads[t].key) THEN "count" ELSE "return")
    /\ UNCHANGED <<in_memory, disk_dict, access_count, written, last>>

(* self._increase_access_count(key), followed by the rebalance or by the   *)
(* return                                                                  *)
T_increase_access_count(t) ==
    /\ At(t, "count") \/ At(t, "count_rebalance")
    /\ \E pos \in Positions(threads[t].key) :
         access_count' = increase_access_count(access_count, threads[t].key, pos)
    /\ Goto(t, IF At(t, "count") THEN "return" ELSE "rebalance")
    /\ UNCHANGED <<in_memory, disk_dict, written, last>>

(* _move_keys_to_from_memory: keys_for_memory = self._get_keys_for_memory() *)
T_get_keys_for_memory(t) ==
    /\ At(t, "rebalance")
    /\ threads' = [threads EXCEPT
                      ![t].pc = "in_memory_keys",
                      ![t].keys_for_memory = get_keys_for_memory(Self)]
    /\ UNCHANGED <<in_memory, disk_dict, access_count, written, last>>

(* _move_keys_to_disk_if_needed: self._in_memory.keys(), a list of its     *)
(* own; the keys of keys_for_memory are passed over                        *)
T_in_memory_keys(t) ==
    /\ At(t, "in_memory_keys")
    /\ threads' = [threads EXCEPT
                      ![t].pc = "to_disk",
                      ![t].todo = KeysOf(in_memory)
                                      \ Range(threads[t].keys_for_memory)]
    /\ UNCHANGED <<in_memory, disk_dict, access_count, written, last>>

(* _move_keys_to_disk_if_needed: value = self._in_memory.pop(key) for the  *)
(* next key of the list; a KeyError goes on with the key after it          *)
T_in_memory_pop(t) ==
    /\ At(t, "to_disk")
    /\ IF threads[t].todo = {}
       THEN /\ Goto(t, "to_memory")
            /\ UNCHANGED in_memory
       ELSE \E key \in threads[t].todo :
              /\ threads' = [threads EXCEPT
                                ![t].todo = @ \ {key},
                                ![t].cur = key,
                                ![t].val = in_memory[key],
                                ![t].pc = IF Has(in_memory, key)
                                          THEN "disk_store" ELSE "to_disk"]
              /\ in_memory' = [in_memory EXCEPT ![key] = Missing]
    /\ UNCHANGED <<disk_dict, access_count, written, last>>

(* _move_keys_to_disk_if_needed: self._disk_dict[key] = value              *)
T_disk_store(t) ==
    /\ At(t, "disk_store")
    /\ disk_dict' = DiskDict_setitem(disk_dict, threads[t].cur, threads[t].val)
    /\ Goto(t, "to_disk")
    /\ UNCHANGED <<in_memory, access_count, written, last>>

(* _move_keys_to_memory_if_needed: if key in self._in_memory: continue     *)
T_to_memory_in_memory(t) ==
    /\ At(t, "to_memory")
    /\ LET rest == threads[t].keys_for_memory
       IN IF rest = <<>> THEN Goto(t, "return")
          ELSE IF Has(in_memory, Head(rest))
          THEN threads' = [threads EXCEPT ![t].keys_for_memory = Tail(rest)]
          ELSE threads' = [threads EXCEPT ![t].keys_for_memory = Tail(rest),
                                          ![t].cur = Head(rest),
                                          ![t].pc = "disk_pop"]
    /\ UNCHANGED <<in_memory, disk_dict, access_count, written, last>>

(* _move_keys_to_memory_if_needed: value = self._disk_dict.pop(key); a     *)
(* KeyError goes on with the next key                                      *)
T_disk_pop(t) ==
    /\ At(t, "disk_pop")
    /\ threads' = [threads EXCEPT
                      ![t].val = disk_dict[threads[t].cur],
                      ![t].pc = IF Has(disk_dict, threads[t].cur)
                                THEN "memory_store" ELSE "to_memory"]
    /\ disk_dict' = IF Has(disk_dict, threads[t].cur)
                    THEN DiskDict_pop(disk_dict, threads[t].cur) ELSE disk_dict
    /\ UNCHANGED <<in_memory, access_count, written, last>>

(* _move_keys_to_memory_if_needed: self._in_memory[key] = value            *)
T_memory_store(t) ==
    /\ At(t, "memory_store")
    /\ in_memory' = [in_memory EXCEPT ![threads[t].cur] = threads[t].val]
    /\ Goto(t, "to_memory")
    /\ UNCHANGED <<disk_dict, access_count, written, last>>

(* The call returns (or raises KeyError); a completed __setitem__ is the   *)
(* latest write of its key.                                                *)
T_return(t) ==
    /\ At(t, "return")
    /\ threads' = [threads EXCEPT ![t] = Idle(@.left - 1)]
    /\ written' = IF threads[t].op = "setitem"
                  THEN [written EXCEPT ![threads[t].key] = threads[t].value]
                  ELSE written
    /\ UNCHANGED <<in_memory, disk_dict, access_count, last>>

NextThreads ==
    \E t \in Threads :
        \/ \E key \in Keys, value \in Values : T_setitem_in_memory(t, key, value)
        \/ T_setitem_len(t)
        \/ T_setitem_store_memory(t)
        \/ T_setitem_store_disk(t)
        \/ \E key \in Keys : T_getitem_in_memory(t, key)
        \/ T_getitem_disk(t)
        \/ \E key \in Keys : T_contains_in_memory(t, key)
        \/ T_contains_disk(t)
        \/ T_increase_access_count(t)
        \/ T_get_keys_for_memory(t)
        \/ T_in_memory_keys(t)
        \/ T_in_memory_pop(t)
        \/ T_disk_store(t)
        \/ T_to_memory_in_memory(t)
        \/ T_disk_pop(t)
        \/ T_memory_store(t)
        \/ T_return(t)

(* Threads calling __setitem__, __getitem__ and __contains__ on one        *)
(* object, with no lock, as the class has none.  No thread calls           *)
(* __delitem__: no delete is concurrent with a set.                        *)
SpecThreads == Init /\ [][NextThreads]_vars

(* The specification without __delitem__: the calls that only read, write  *)
(* and count.                                                              *)
NextNoDelete ==
    \/ \E key \in Keys, value \in Values : SetItem(key, value)
    \/ \E key \in Keys : GetItem(key)
    \/ \E key \in Keys, default \in OmittedDefaults : Get(key, default)
    \/ \E key \in Keys, default \in SuppliedDefaults : Get(key, default)
    \/ \E key \in Keys : Contains(key)
    \/ Iter
    \/ IterItems
    \/ Cleanup

SpecNoDelete == Init /\ [][NextNoDelete]_vars

(* ------------------------------ properties ---------------------------- *)
VisibleIn(mem, disk, key) == IF Has(mem, key) THEN mem[key] ELSE disk[key]

Visible(key) == VisibleIn(in_memory, disk_dict, key)

TopN == Range(get_keys_for_memory(Self))

(* C1: between calls, no key is both in memory and on disk.                *)
C1_Exclusivity ==
    \A key \in Keys : ~(Has(in_memory, key) /\ Has(disk_dict, key))

(* C2: between calls, memory never holds more than max_in_memory keys.     *)
C2_Capacity == Cardinality(KeysOf(in_memory)) <= MaxInMemory

C2_Witness ==
    /\ last.op = "setitem"
    /\ last.rebalanced
    /\ Cardinality(KeysOf(in_memory)) = MaxInMemory
    /\ Has(in_memory, last.key)
    /\ KeysOf(disk_dict) # {}

(* C3: after del self[key] returns without KeyError, key is in neither     *)
(* tier (so `key in self` is False and self[key] raises KeyError).          *)
C3_DeleteRemoves ==
    (last.op = "delitem" /\ ~last.raised) => ~Stored(last.key)

(* C4: after del self[key] the Counter holds no entry for key, whichever   *)
(* tier held it; so between calls every key with an entry is stored.       *)
C4_DeletePurgesCounter ==
    /\ last.op = "delitem" => access_count.n[last.key] = 0
    /\ \A key \in Keys : access_count.n[key] > 0 => Stored(key)

(* C5: a key written and not deleted since reads back the value of its     *)
(* latest __setitem__, whichever tier holds it; self[key] and              *)
(* self.get(key) return that value.                                        *)
C5_LastWriteWins ==
    /\ \A key \in Keys :
         written[key] # Missing => Stored(key) /\ Visible(key) = written[key]
    /\ (last.op \in {"getitem", "get"} /\ last.rebalanced
            /\ written[last.key] # Missing)
         => last.ret = written[last.key]

C5_Witness ==
    /\ last.op = "getitem"
    /\ last.rebalanced
    /\ last.ret = 2
    /\ written[last.key] = 2
    /\ \E key \in Keys :
         /\ Has(in_memory, key) /\ Has(disk_dict, key)
         /\ written[key] = in_memory[key]
         /\ disk_dict[key] # in_memory[key]

C7_ReadKeepsValues ==
    [][(last'.op \in {"getitem", "get"} /\ last'.rebalanced) =>
          /\ \A key \in Keys :
               VisibleIn(in_memory', disk_dict', key) = Visible(key)
          /\ access_count'.n =
               [access_count.n EXCEPT ![last'.key] = @ + 1]]_vars

C7_Witness ==
    /\ last.op = "get"
    /\ last.rebalanced
    /\ last.ret = Visible(last.key)
    /\ Has(in_memory, last.key)
    /\ KeysOf(disk_dict) # {}
    /\ \E key \in KeysOf(disk_dict) : access_count.n[key] < access_count.n[last.key]

C9_GetDefault ==
    (last.op = "get" /\ ~last.rebalanced) =>
        IF last.supplied THEN ~last.raised /\ last.ret = last.arg
        ELSE last.raised

(* C10: `key in self` is True exactly when the key is in memory or on      *)
(* disk, adds one to the key's count on a hit and none on a miss, and      *)
(* leaves both tiers as they were.                                         *)
C10_ContainsOnlyCounts ==
    [][last'.op = "contains" =>
          /\ last'.ret = IF Stored(last'.key) THEN True ELSE False
          /\ UNCHANGED <<in_memory, disk_dict>>
          /\ access_count'.n =
               IF Stored(last'.key)
               THEN [access_count.n EXCEPT ![last'.key] = @ + 1]
               ELSE access_count.n]_vars

C10_Witness ==
    /\ last.op = "contains"
    /\ last.ret = True
    /\ Has(disk_dict, last.key)
    /\ move_keys_to_from_memory(Self) # Self

(* C11: cleanup leaves the object as __init__ made it: both tiers and the  *)
(* Counter empty, max_in_memory as it was; no key is found afterwards.     *)
C11_CleanupResets ==
    last.op = "cleanup" =>
        /\ Self = init(MaxInMemory)
        /\ \A key \in Keys : ~Stored(key) /\ access_count.n[key] = 0

C11_Witness ==
    /\ last.op = "cleanup"
    /\ last.arg = NumKeys
    /\ KeysOf(in_memory) = {}
    /\ KeysOf(disk_dict) = {}
    /\ access_count.keys = <<>>

(* C12: iterating yields the keys (pairs) in memory first and the keys     *)
(* (pairs) on disk after them, and changes neither a count nor a tier.     *)
C12_IterationOrder ==
    [][last'.op \in {"iter", "iteritems"} =>
          /\ UNCHANGED <<in_memory, disk_dict, access_count>>
          /\ LET y == last'.yielded
                 m == Cardinality(KeysOf(in_memory))
                 d == Cardinality(KeysOf(disk_dict))
                 KeyAt(i) == IF last'.op = "iter" THEN y[i] ELSE y[i][1]
             IN /\ Len(y) = m + d
                /\ {KeyAt(i) : i \in 1..m} = KeysOf(in_memory)
                /\ {KeyAt(i) : i \in (m + 1)..(m + d)} = KeysOf(disk_dict)
                /\ last'.op = "iteritems" =>
                     /\ \A i \in 1..m : y[i][2] = in_memory[y[i][1]]
                     /\ \A i \in (m + 1)..(m + d) : y[i][2] = disk_dict[y[i][1]]]_vars

C12_Witness ==
    /\ last.op = "iteritems"
    /\ Len(last.yielded) = 3
    /\ KeysOf(disk_dict) # {}
    /\ \E key \in Keys : Has(in_memory, key) /\ Has(disk_dict, key)

(* C13: every key stored in memory or on disk has an entry in the Counter  *)
(* with a count of at least one.                                           *)
C13_TrackerCoverage ==
    \A key \in Keys :
        Stored(key) =>
            /\ access_count.n[key] >= 1
            /\ key \in Range(access_count.keys)

C13_Witness ==
    /\ last.op = "delitem"
    /\ ~last.raised
    /\ Stored(last.key)
    /\ \E key \in Keys : key # last.key /\ Has(disk_dict, key)

(* C14: ties between equal counts go to the key counted first: when memory *)
(* is full and a key never counted before is set while every count is one, *)
(* the new key stays on disk and the keys in memory stay in memory.        *)
C14_TieBreakFirstAccess ==
    [][(/\ last'.op = "setitem"
        /\ last'.rebalanced
        /\ access_count.n[last'.key] = 0
        /\ \A key \in Keys : access_count'.n[key] <= 1)
       => /\ in_memory' = in_memory
          /\ Has(disk_dict', last'.key)]_vars

(* C15 as stated: no call but cleanup lowers the count of any key.         *)
C15_CountMonotonic ==
    [][last'.op # "cleanup" =>
          \A key \in Keys : access_count'.n[key] >= access_count.n[key]]_vars

(* C15 amended: the count of a key goes down only when cleanup is called   *)
(* or when that very key is deleted; every other call keeps it or adds one.*)
C15_CountsDropOnlyOnDelete ==
    [][\A key \in Keys :
          \/ last'.op = "cleanup"
          \/ last'.op = "delitem" /\ last'.key = key
                 /\ access_count'.n[key] \in {0, access_count.n[key]}
          \/ access_count'.n[key] \in {access_count.n[key],
                                       access_count.n[key] + 1}]_vars

C15_Witness ==
    /\ last.op = "delitem"
    /\ ~last.raised
    /\ access_count.n[last.key] = 0
    /\ \E key \in Keys : access_count.n[key] = MaxCount
    /\ \E key \in Keys : access_count.n[key] = 1

(* C16: right after a call that ran the rebalance, with target the         *)
(* most_common(max_in_memory) keys of the counts as they are now: no key   *)
(* outside target is in memory, every stored key of target is in memory    *)
(* and not on disk, and every key has the value it had (the key just set:  *)
(* the value set).                                                         *)
C16_RebalancePostcondition ==
    [][last'.rebalanced =>
          LET target == Range(most_common(access_count'.n, access_count'.keys,
                                          MaxInMemory))
          IN /\ \A key \in Keys : Has(in_memory', key) => key \in target
             /\ \A key \in target :
                   (Has(in_memory', key) \/ Has(disk_dict', key)) =>
                       Has(in_memory', key) /\ ~Has(disk_dict', key)
             /\ \A key \in Keys :
                   VisibleIn(in_memory', disk_dict', key) =
                       IF last'.op = "setitem" /\ last'.key = key
                       THEN last'.arg ELSE Visible(key)]_vars

(* C17: right after a set that skipped the rebalance (the key was in       *)
(* memory, or memory had room), running _move_keys_to_from_memory would    *)
(* move no key.                                                            *)
C17_SkippedRebalanceMovesNothing ==
    (last.op = "setitem" /\ ~last.rebalanced) =>
        move_keys_to_from_memory(Self) = Self

(* C18: a call whose rebalance meets a key of most_common(max_in_memory)   *)
(* that is in neither tier still ends normally: no KeyError, the value     *)
(* read is returned, no stored key is lost, and the other keys are moved   *)
(* (every stored key of the target is in memory, no other key is).         *)
C18_BestEffortMigration ==
    [][LET target == Range(most_common(access_count'.n, access_count'.keys,
                                       MaxInMemory))
           StoredAfter(key) == Has(in_memory', key) \/ Has(disk_dict', key)
       IN (last'.rebalanced /\ \E key \in target : ~StoredAfter(key)) =>
             /\ ~last'.raised
             /\ last'.op \in {"getitem", "get"} => last'.ret = Visible(last'.key)
             /\ \A key \in Keys :
                   StoredAfter(key) <=> (Stored(key) \/ key = last'.key)
             /\ \A key \in target : StoredAfter(key) => Has(in_memory', key)
             /\ \A key \in Keys : Has(in_memory', key) => key \in target]_vars

C18_Witness ==
    LET target == get_keys_for_memory(Self)
    IN /\ last.op = "getitem"
       /\ last.rebalanced
       /\ Len(target) = 2
       /\ ~Stored(target[1])
       /\ target[2] = last.key
       /\ Has(in_memory, last.key)
       /\ KeysOf(disk_dict) # {}

(* C20: right after a call that ran the rebalance, memory holds            *)
(* min(max_in_memory, number of stored keys) keys: no slot is kept for a   *)
(* key that is stored nowhere.                                             *)
C20_NoWastedSlots ==
    last.rebalanced =>
        LET stored == Cardinality({key \in Keys : Stored(key)})
        IN Cardinality(KeysOf(in_memory)) =
               IF stored < MaxInMemory THEN stored ELSE MaxInMemory

(* C19: when every thread is between calls, no key is both in memory and   *)
(* on disk, and every key that was set is stored with the value of its     *)
(* latest completed __setitem__.                                           *)
C19_RelaxedConsistency ==
    (\A t \in Threads : threads[t].pc = "idle") =>
        /\ \A key \in Keys : ~(Has(in_memory, key) /\ Has(disk_dict, key))
        /\ \A key \in Keys :
              Has(written, key) => Stored(key) /\ Visible(key) = written[key]

====
